---- MODULE Spec2Model ----
(***************************************************************************)
(* Student portal (src/main2.py): one SQLite table "students", a Streamlit *)
(* session (logged_in, user_data, login_failed_count, captcha), the        *)
(* uploads directory, and the handlers of the script: registration, login, *)
(* logout, the pages of the dashboard and the admin actions (delete,       *)
(* password reset, CSV import and export).  A step is one use of a widget  *)
(* with the script run, or the runs, it starts.                            *)
(*                                                                         *)
(* Python str values are TLA+ strings; character-level code (int(),        *)
(* str.strip()) is computed on them with Len and SubSeq.  A table row is   *)
(* the tuple sqlite3 returns for SELECT *: one value per table column, in  *)
(* table-column order.                                                     *)
(***************************************************************************)
EXTENDS Integers, Sequences, FiniteSets, TLC

VARIABLES
    db,                  \* student_data.db: [exists, cols, rows] of table students
    uploads,             \* the uploads directory: path -> bytes written
    started,             \* the script has run at least once in this session
    logged_in,           \* st.session_state.logged_in
    user_data,           \* st.session_state.user_data (NoUser for None)
    login_failed_count,  \* st.session_state.login_failed_count
    captcha,             \* st.session_state.captcha: the tuple <<a, b, a + b>>, which
                         \* tuple object it is, and the code that created it
    request,             \* the widget values of the last script run
    notice,              \* the last message the last script run reported (st.error /
                         \* st.success), without the pictograph some start with
    result,              \* what import_users_from_csv returned or raised in the
                         \* last script run: <<raised, imported, errors>>
    uploaded_csv,        \* the file st.file_uploader holds (None for no file)
    download,            \* the bytes st.download_button was drawn with
    served,              \* the bytes a click on the download button fetched in
                         \* the last step
    tab,                 \* the radio "Select Option" of the login page (line 183),
                         \* "" while the page is not drawn
    option               \* the radio "Go to" of the dashboard's sidebar (line 312),
                         \* "" while the dashboard is not drawn

vars == <<db, uploads, started, logged_in, user_data, login_failed_count,
          captcha, request, notice, result, uploaded_csv, download, served, tab, option>>

----------------------------------------------------------------------------
(* Bounds of the model *)

\* login attempts are explored while login_failed_count is below this
MaxFailed == 3
\* inserts are explored while the table holds fewer rows than this
MaxRows == 4

----------------------------------------------------------------------------
(* Values *)

\* Python None / SQL NULL: a value different from every str the inputs draw
None == "<None>"
\* st.session_state.user_data = None (a row tuple is never empty)
NoUser == << >>

Range(s) == { s[i] : i \in 1..Len(s) }

\* the i-th character of a str
Ch(s, i) == SubSeq(s, i, i)

\* A str of the model is made of the characters U+0001 to U+00FF; the classes
\* below are Python's classes within them.

\* the decimal digits: what int() reads and what \d matches
Digits == <<"0", "1", "2", "3", "4", "5", "6", "7", "8", "9">>
IsDigit(c) == c \in Range(Digits)
DigitVal(c) == (CHOOSE i \in 1..10 : Digits[i] = c) - 1
\* str.isdigit() for one character: the decimal digits and the superscripts
\* U+00B2, U+00B3, U+00B9
isdigit(c) == IsDigit(c) \/ c \in {"²", "³", "¹"}
\* the whitespace int() drops around a literal: \t \n \v \f \r, the space,
\* U+0085 and U+00A0
IsIntSpace(c) == c \in {" ", "\t", "\n", "", "\f", "\r", "", " "}
\* str.isspace() for one character, the whitespace str.strip() drops: the
\* above and U+001C to U+001F
IsSpace(c) == IsIntSpace(c) \/ c \in {"", "", "", ""}
IsLower(c) == c \in {"a","b","c","d","e","f","g","h","i","j","k","l","m",
                     "n","o","p","q","r","s","t","u","v","w","x","y","z"}
IsUpper(c) == c \in {"A","B","C","D","E","F","G","H","I","J","K","L","M",
                     "N","O","P","Q","R","S","T","U","V","W","X","Y","Z"}

\* a name as SQLite compares column names: without case
Uppers == <<"A","B","C","D","E","F","G","H","I","J","K","L","M",
            "N","O","P","Q","R","S","T","U","V","W","X","Y","Z">>
Lowers == <<"a","b","c","d","e","f","g","h","i","j","k","l","m",
            "n","o","p","q","r","s","t","u","v","w","x","y","z">>
LowerCh(c) == IF IsUpper(c) THEN Lowers[CHOOSE i \in 1..26 : Uppers[i] = c] ELSE c
RECURSIVE Lower(_)
Lower(s) == IF Len(s) = 0 THEN "" ELSE LowerCh(Ch(s, 1)) \o Lower(SubSeq(s, 2, Len(s)))

\* str.strip(): leading and trailing whitespace removed
LStrip(s) ==
    LET kept == { i \in 1..Len(s) : ~IsSpace(Ch(s, i)) }
    IN  IF kept = {} THEN ""
        ELSE SubSeq(s, CHOOSE i \in kept : \A j \in kept : i <= j, Len(s))
RStrip(s) ==
    LET kept == { i \in 1..Len(s) : ~IsSpace(Ch(s, i)) }
    IN  IF kept = {} THEN ""
        ELSE SubSeq(s, 1, CHOOSE i \in kept : \A j \in kept : i >= j)
Strip(s) == RStrip(LStrip(s))

\* a value in an f-string
PyStr(v) == IF v = None THEN "None" ELSE v

\* str(n) for an integer n
RECURSIVE NatToStr(_)
NatToStr(n) == IF n < 10 THEN Digits[n + 1] ELSE NatToStr(n \div 10) \o Digits[(n % 10) + 1]
IntToStr(n) == IF n < 0 THEN "-" \o NatToStr(-n) ELSE NatToStr(n)

\* the value of a digit string
RECURSIVE DigitsValue(_, _)
DigitsValue(s, acc) ==
    IF Len(s) = 0 THEN acc
    ELSE DigitsValue(SubSeq(s, 2, Len(s)), 10 * acc + DigitVal(Ch(s, 1)))

\* a str without its underscores
RECURSIVE WithoutUnderscores(_)
WithoutUnderscores(s) ==
    IF Len(s) = 0 THEN ""
    ELSE IF Len(s) = 1 THEN (IF s = "_" THEN "" ELSE s)
    ELSE WithoutUnderscores(SubSeq(s, 1, Len(s) \div 2))
         \o WithoutUnderscores(SubSeq(s, (Len(s) \div 2) + 1, Len(s)))

\* the digits of a digit string, in which single underscores may separate
\* digits, without the underscores and the leading zeros ("" for zero): the
\* decimal notation of its value
Significant(s) ==
    LET digits == WithoutUnderscores(s)
        nonzero == { i \in 1..Len(digits) : Ch(digits, i) /= "0" }
    IN  IF nonzero = {} THEN ""
        ELSE SubSeq(digits, CHOOSE i \in nonzero : \A j \in nonzero : i <= j,
                    Len(digits))

\* sys.int_info.default_max_str_digits: int() raises ValueError for a decimal
\* literal with more digits, leading zeros counted, underscores not
MaxStrDigits == 4300

\* the whitespace int() drops
IntLStrip(s) ==
    LET kept == { i \in 1..Len(s) : ~IsIntSpace(Ch(s, i)) }
    IN  IF kept = {} THEN ""
        ELSE SubSeq(s, CHOOSE i \in kept : \A j \in kept : i <= j, Len(s))
IntRStrip(s) ==
    LET kept == { i \in 1..Len(s) : ~IsIntSpace(Ch(s, i)) }
    IN  IF kept = {} THEN ""
        ELSE SubSeq(s, 1, CHOOSE i \in kept : \A j \in kept : i >= j)

\* int(s): [ok |-> FALSE] stands for ValueError.  Whitespace around the literal
\* is dropped, one sign is allowed, the digits may hold single underscores
\* between digits and are at most MaxStrDigits.  A Python int has no bound:
\* val is the integer when it has at most nine significant digits (big is
\* FALSE), and its decimal notation, a str, when it has more (big is TRUE).
PyInt(s) ==
    LET t == IntRStrip(IntLStrip(s))
        signed == Len(t) > 0 /\ Ch(t, 1) \in {"+", "-"}
        negative == signed /\ Ch(t, 1) = "-"
        body == IF signed THEN SubSeq(t, 2, Len(t)) ELSE t
        wellFormed ==
            /\ Len(body) > 0
            /\ IsDigit(Ch(body, 1))
            /\ IsDigit(Ch(body, Len(body)))
            /\ \A i \in 1..Len(body) : IsDigit(Ch(body, i)) \/ Ch(body, i) = "_"
            /\ \A i \in 1..(Len(body) - 1) : ~(Ch(body, i) = "_" /\ Ch(body, i + 1) = "_")
            /\ Cardinality({ i \in 1..Len(body) : IsDigit(Ch(body, i)) }) <= MaxStrDigits
    IN  IF ~wellFormed THEN [ok |-> FALSE, big |-> FALSE, val |-> 0]
        ELSE IF Len(Significant(body)) > 9
        THEN [ok |-> TRUE, big |-> TRUE,
              val |-> IF negative THEN "-" \o Significant(body) ELSE Significant(body)]
        ELSE [ok |-> TRUE, big |-> FALSE,
              val |-> IF negative THEN 0 - DigitsValue(Significant(body), 0)
                      ELSE DigitsValue(Significant(body), 0)]

----------------------------------------------------------------------------
(* The table *)

DESIRED_SCHEMA ==
    <<"uname", "pwd", "name", "father", "mother", "gender", "address", "city",
      "state", "phone", "rrn", "enroll", "degree", "branch", "sem", "scheme",
      "marks_10th", "marks_12th", "photo_path", "sign_path">>

\* position of column col in a column list (0 when absent)
ColIndex(cols, col) ==
    IF col \in Range(cols) THEN CHOOSE i \in 1..Len(cols) : cols[i] = col ELSE 0

\* value of the named column in a row of a table with columns cols
Field(cols, row, col) == row[ColIndex(cols, col)]

NoTable == [exists |-> FALSE, cols |-> << >>, rows |-> << >>]

\* ensure_table_and_columns(): CREATE TABLE with the schema's columns, or,
\* for the schema keys that PRAGMA table_info does not list, one ALTER TABLE
\* ADD COLUMN each, in schema order; an added column is NULL in the rows
\* that exist.
MissingCols(d) ==
    LET existing == Range(d.cols)
    IN  SelectSeq(DESIRED_SCHEMA, LAMBDA col : col \notin existing)

\* ALTER TABLE students ADD COLUMN col <type> raises sqlite3.OperationalError:
\* "Cannot add a PRIMARY KEY column" for uname, whose type is TEXT PRIMARY KEY,
\* and "duplicate column name" when the table has a column of that name in
\* another case
AddColumnRaises(cols, col) ==
    \/ col = "uname"
    \/ \E j \in 1..Len(cols) : Lower(cols[j]) = Lower(col)

\* the ALTER TABLE of the loop (lines 60-63) whose exception ends it: its
\* position among the missing columns, 0 when every one succeeds
FirstRaising(d) ==
    LET missing == MissingCols(d)
        bad == { k \in 1..Len(missing) : AddColumnRaises(d.cols, missing[k]) }
    IN  IF bad = {} THEN 0 ELSE CHOOSE k \in bad : \A m \in bad : k <= m

\* ensure_table_and_columns() raises
EnsureRaises(d) == d.exists /\ FirstRaising(d) /= 0

\* the database after ensure_table_and_columns() has returned or raised
ensure_table_and_columns(d) ==
    IF ~d.exists THEN [exists |-> TRUE, cols |-> DESIRED_SCHEMA, rows |-> << >>]
    ELSE LET missing == MissingCols(d)
             added == IF missing = << >> \/ FirstRaising(d) = 0 THEN missing
                      ELSE SubSeq(missing, 1, FirstRaising(d) - 1)
         IN  IF added = << >> THEN d
             ELSE [d EXCEPT !.cols = @ \o added,
                            !.rows = [i \in 1..Len(@) |->
                                         @[i] \o [k \in 1..Len(added) |-> None]]]

\* the rows SELECT * FROM students WHERE uname = u returns (NULL equals nothing)
RowsNamed(d, u) ==
    LET k == ColIndex(d.cols, "uname")
    IN  { i \in 1..Len(d.rows) : u /= None /\ d.rows[i][k] = u }

\* INSERT INTO students (<schema keys>) VALUES (?, ...): values holds one
\* value per schema key.  uname is the PRIMARY KEY: a non-NULL uname that a
\* row already holds raises sqlite3.IntegrityError; a column of the table
\* that is no schema key is left NULL.
InsertOk(d, values) == RowsNamed(d, values[1]) = {}

SchemaIndex == [col \in Range(DESIRED_SCHEMA) |-> ColIndex(DESIRED_SCHEMA, col)]

InsertRow(d, values) ==
    [d EXCEPT !.rows =
        Append(@, [j \in 1..Len(d.cols) |->
                      IF d.cols[j] \in DOMAIN SchemaIndex THEN values[SchemaIndex[d.cols[j]]]
                      ELSE None])]

AdminValues ==
    <<"admin", "Admin@123", "Administrator", "", "", "Other", "", "", "", "", "",
      "", "Admin", "Admin", "NA", "NA", "", "", "", "">>

\* lines 70-81: insert the admin account when SELECT finds none
BootstrapAdmin(d) ==
    IF RowsNamed(d, "admin") /= {} THEN d
    ELSE IF InsertOk(d, AdminValues) THEN InsertRow(d, AdminValues)
    ELSE d

\* what every script run does to the database before the page is drawn; the
\* exception of ensure_table_and_columns() (line 67) ends the run
ScriptTop(d) ==
    IF d.exists /\ MissingCols(d) = << >> THEN BootstrapAdmin(d)
    ELSE IF EnsureRaises(d) THEN ensure_table_and_columns(d)
    ELSE BootstrapAdmin(ensure_table_and_columns(d))

----------------------------------------------------------------------------
(* Validators and save_file *)

\* is_valid_number(num, length); length 0 stands for the default None
is_valid_number(num, length) ==
    /\ Len(num) > 0
    /\ \A i \in 1..Len(num) : isdigit(Ch(num, i))
    /\ IF length /= 0 THEN Len(num) = length ELSE TRUE

\* is_valid_name(name): [A-Za-z ]+ on the stripped name
is_valid_name(name) ==
    LET t == Strip(name)
    IN  /\ Len(name) > 0
        /\ Len(t) > 0
        /\ \A i \in 1..Len(t) : IsLower(Ch(t, i)) \/ IsUpper(Ch(t, i)) \/ Ch(t, i) = " "

\* is_strong_password(pwd): the four lookaheads, then .{8,}
is_strong_password(pwd) ==
    /\ \E i \in 1..Len(pwd) : IsLower(Ch(pwd, i))
    /\ \E i \in 1..Len(pwd) : IsUpper(Ch(pwd, i))
    /\ \E i \in 1..Len(pwd) : IsDigit(Ch(pwd, i))
    /\ \E i \in 1..Len(pwd) : Ch(pwd, i) \in {"@", "#", "$", "%", "^", "&", "+", "=", "!"}
    /\ \A i \in 1..Len(pwd) : Ch(pwd, i) /= "\n"
    /\ Len(pwd) >= 8

\* is_valid_marks(value): \d+(\.\d{1,2})? on the stripped value
is_valid_marks(value) ==
    LET t == Strip(value)
        dots == { i \in 1..Len(t) : Ch(t, i) = "." }
        allDigits(lo, hi) == \A i \in lo..hi : IsDigit(Ch(t, i))
    IN  /\ Len(t) > 0
        /\ \/ /\ dots = {}
              /\ allDigits(1, Len(t))
           \/ \E d \in dots :
                /\ dots = {d}
                /\ d > 1
                /\ Len(t) - d \in {1, 2}
                /\ allDigits(1, d - 1)
                /\ allDigits(d + 1, Len(t))

\* os.path.join("uploads", filename): a filename that starts with "/" is the
\* whole path
UploadPath(filename) ==
    IF Len(filename) > 0 /\ Ch(filename, 1) = "/" THEN filename
    ELSE "uploads/" \o filename

\* The file system.  A directory or a file is the sequence of the names that
\* lead to it from the root.  Cwd is the directory the program runs in,
\* HostDirs the directories that exist (uploads by os.makedirs, line 17) and
\* HostFiles the files beside the program's own uploads.  The variable
\* uploads holds the files save_file wrote: a file in or below Cwd under its
\* path from Cwd, any other under its path from the root.
Cwd == <<"app">>
HostDirs == { << >>, Cwd, Cwd \o <<"uploads">> }
HostFiles == { Cwd \o <<"main2.py">>, Cwd \o <<"student_data.db">> }

\* the limits of the host for the bytes of one name and of a path
NameMax == 255
PathMax == 4095

\* the characters U+0080 to U+00FF, two bytes each in a path
TwoByteChars == " ¡¢£¤¥¦§¨©ª«¬­®¯°±²³´µ¶·¸¹º»¼½¾¿ÀÁÂÃÄÅÆÇÈÉÊËÌÍÎÏÐÑÒÓÔÕÖ×ØÙÚÛÜÝÞßàáâãäåæçèéêëìíîïðñòóôõö÷øùúûüýþÿ"
TwoByteSet == { Ch(TwoByteChars, i) : i \in 1..Len(TwoByteChars) }
\* the bytes of a str in a path
Utf8Len(s) == Len(s) + Cardinality({ i \in 1..Len(s) : Ch(s, i) \in TwoByteSet })

\* the names between the "/" of a path
SplitPath(path) ==
    LET cuts == {0} \cup { i \in 1..Len(path) : Ch(path, i) = "/" } \cup {Len(path) + 1}
        cut(k) == CHOOSE c \in cuts : Cardinality({ d \in cuts : d < c }) = k - 1
    IN  [k \in 1..(Cardinality(cuts) - 1) |-> SubSeq(path, cut(k) + 1, cut(k + 1) - 1)]

RECURSIVE JoinPath(_)
JoinPath(names) ==
    IF Len(names) = 0 THEN ""
    ELSE IF Len(names) = 1 THEN names[1]
    ELSE names[1] \o "/" \o JoinPath(Tail(names))

\* the name uploads holds a file under
FileKey(file) ==
    IF Len(file) > Len(Cwd) /\ SubSeq(file, 1, Len(Cwd)) = Cwd
    THEN JoinPath(SubSeq(file, Len(Cwd) + 1, Len(file)))
    ELSE "/" \o JoinPath(file)

IsFile(files, file) == file \in HostFiles \/ FileKey(file) \in DOMAIN files

\* the look-up of names[n..] from directory dir for open(path, "wb"):
\* [raised, file], raised the exception's class ("" for none) and file the
\* file that is written
RECURSIVE Lookup(_, _, _, _)
Lookup(files, dir, names, n) ==
    LET name == names[n]
        last == n = Len(names)
        here == Append(dir, name)
    IN  IF name \in {"", "."}
        THEN IF last THEN [raised |-> "IsADirectoryError", file |-> dir]
             ELSE Lookup(files, dir, names, n + 1)
        ELSE IF name = ".."
        THEN LET up == IF dir = << >> THEN dir ELSE SubSeq(dir, 1, Len(dir) - 1)
             IN  IF last THEN [raised |-> "IsADirectoryError", file |-> up]
                 ELSE Lookup(files, up, names, n + 1)
        ELSE IF Utf8Len(name) > NameMax THEN [raised |-> "OSError", file |-> here]
        ELSE IF here \in HostDirs
        THEN IF last THEN [raised |-> "IsADirectoryError", file |-> here]
             ELSE Lookup(files, here, names, n + 1)
        ELSE IF last THEN [raised |-> "", file |-> here]
        ELSE IF IsFile(files, here) THEN [raised |-> "NotADirectoryError", file |-> here]
        ELSE [raised |-> "FileNotFoundError", file |-> here]

\* open(path, "wb") with the files that exist
OpenForWrite(files, path) ==
    IF Utf8Len(path) > PathMax THEN [raised |-> "OSError", file |-> << >>]
    ELSE Lookup(files, IF Ch(path, 1) = "/" THEN << >> ELSE Cwd, SplitPath(path), 1)

\* save_file(uploaded_file, filename) with the files that exist:
\* [raised, files, path], raised the exception that escapes it ("" for none),
\* files the files after it and path what it returns
save_file(files, uploaded_file, filename) ==
    LET path == UploadPath(filename)
        opened == OpenForWrite(files, path)
        key == FileKey(opened.file)
    IN  IF uploaded_file = None THEN [raised |-> "", files |-> files, path |-> None]
        ELSE IF opened.raised /= ""
        THEN [raised |-> opened.raised, files |-> files, path |-> None]
        ELSE [raised |-> "",
              files |-> [p \in (DOMAIN files) \cup {key} |->
                            IF p = key THEN uploaded_file ELSE files[p]],
              path |-> path]

----------------------------------------------------------------------------
(* Session *)

CaptchaLo == 2
CaptchaHi == 12
Operands == CaptchaLo..CaptchaHi

\* the values of random.randint(2, 12) drawn in the runs of Spec, SpecSchema
\* and SpecAuth
EdgeOperands == {CaptchaLo, CaptchaHi}

\* a = random.randint(2, 12); b = random.randint(2, 12); (a, b, a + b)
Challenge(a, b) == <<a, b, a + b>>

\* the identities a tuple object can have
ObjIds == {"tuple0", "tuple1"}
\* the identity of a newly created object: not that of an object still referenced
NewId(live) == CHOOSE i \in ObjIds : i /= live

\* the key "captcha" is not in st.session_state
NoCaptcha == [tuple |-> <<0, 0, 0>>, id |-> "", by |-> ""]

\* st.session_state.captcha once the session setup (lines 90-95) has run
SetupCaptcha(a, b) == [tuple |-> Challenge(a, b), id |-> NewId(""), by |-> "setup"]

\* a login handler that stores no new tuple
KeepCaptcha(cur, a, b) == cur

\* st.session_state.captcha once a branch of the login handler has run its
\* last lines (273-276, 287-290, 296-299): a new tuple replaces cur
RegenerateCaptcha(cur, a, b) ==
    [tuple |-> Challenge(a, b), id |-> NewId(cur.id), by |-> "login"]

\* a login handler that does not count
FailedCountSame(n) == n

\* st.session_state.login_failed_count += 1 (lines 270, 293)
FailedCount(n) == n + 1

\* no widget was used in the script run
NoRequest == [op |-> "", args |-> << >>]
\* no download button is drawn: a value different from every bytes value
NoDownload == None

\* line 310
base_options == <<"Home", "About Me", "College Detail", "Photo & Signature", "Download PDF">>

\* the branch of the last line of the script: dashboard or login_register
ShowsDashboard == logged_in /\ user_data /= NoUser
\* dashboard(): is_admin_user
IsAdminUser == ShowsDashboard /\ user_data[1] = "admin"

Init ==
    /\ db = NoTable
    /\ uploads = << >>
    /\ started = FALSE
    /\ logged_in = FALSE
    /\ user_data = NoUser
    /\ login_failed_count = 0
    /\ captcha = NoCaptcha
    /\ request = NoRequest
    /\ notice = ""
    /\ result = << >>
    /\ uploaded_csv = None
    /\ download = NoDownload
    /\ served = << >>
    /\ tab = ""
    /\ option = ""

\* student_data.db files an earlier version of the program can have left: no
\* table, or a table with one student; a uname column is the PRIMARY KEY
LegacySubset ==
    [exists |-> TRUE, cols |-> <<"uname", "pwd", "name">>,
     rows |-> << <<"bob", "Bob@1234", "Bob">> >>]
LegacyExtra ==
    [exists |-> TRUE, cols |-> <<"uname", "note", "pwd">>,
     rows |-> << <<"bob", "old", "Bob@1234">> >>]
LegacySwapped ==
    [exists |-> TRUE, cols |-> <<"uname", "name", "pwd">>,
     rows |-> << <<"bob", "Bob", "Bob@1234">> >>]
LegacyReordered ==
    [exists |-> TRUE,
     cols |-> [i \in 1..Len(DESIRED_SCHEMA) |-> DESIRED_SCHEMA[Len(DESIRED_SCHEMA) + 1 - i]],
     rows |-> << [i \in 1..Len(DESIRED_SCHEMA) |->
                    IF i = Len(DESIRED_SCHEMA) THEN "bob" ELSE "v" \o NatToStr(i)] >>]
LegacyNoKey ==
    [exists |-> TRUE, cols |-> <<"pwd", "name">>, rows |-> << <<"Bob@1234", "Bob">> >>]
LegacyCase ==
    [exists |-> TRUE, cols |-> <<"uname", "pwd", "Father">>,
     rows |-> << <<"bob", "Bob@1234", "Roe">> >>]

\* the session starts on a database file of an earlier version
InitLegacy ==
    /\ db \in {NoTable, LegacySubset, LegacyExtra, LegacySwapped, LegacyReordered,
               LegacyNoKey, LegacyCase}
    /\ uploads = << >>
    /\ started = FALSE
    /\ logged_in = FALSE
    /\ user_data = NoUser
    /\ login_failed_count = 0
    /\ captcha = NoCaptcha
    /\ request = NoRequest
    /\ notice = ""
    /\ result = << >>
    /\ uploaded_csv = None
    /\ download = NoDownload
    /\ served = << >>
    /\ tab = ""
    /\ option = ""

\* The first run of the script in a session: lines 17-95, then the login
\* page, its radio on the first option.
Startup(randint) ==
    /\ ~started
    /\ db' = ScriptTop(db)
    /\ request' = [op |-> "open", args |-> << >>]
    /\ UNCHANGED <<uploads, logged_in, user_data, login_failed_count, result,
                   uploaded_csv, download, served, option>>
    /\ IF EnsureRaises(db)
       THEN /\ notice' = "OperationalError"
            /\ UNCHANGED <<started, captcha, tab>>
       ELSE /\ started' = TRUE
            /\ tab' = "Login"
            /\ UNCHANGED notice
            /\ \E a \in randint, b \in randint : captcha' = SetupCaptcha(a, b)

\* the radio "Select Option" of the login page set to t (lines 183-185, 250):
\* the run draws the form of that option
SelectTab(t) ==
    /\ started
    /\ ~ShowsDashboard
    /\ t \in {"Login", "Register"}
    /\ t /= tab
    /\ tab' = t
    /\ db' = ScriptTop(db)
    /\ request' = [op |-> "tab", args |-> <<t>>]
    /\ notice' = ""
    /\ result' = << >>
    /\ UNCHANGED <<uploads, started, logged_in, user_data, login_failed_count, captcha,
                   uploaded_csv, download, served, option>>

----------------------------------------------------------------------------
(* login_register(): the registration form *)

\* a filled registration form that passes every check, for username u with
\* the uploaded photo bytes ph
GoodForm(u, ph) ==
    [uname |-> u, pwd |-> "Abcd123@", name |-> "Student " \o u, father |-> "Roe",
     mother |-> "Doe", gender |-> "Other", address |-> "1 Main St", city |-> "Jaipur",
     state |-> "Rajasthan", phone |-> "9876543210", rrn |-> "0141", enroll |-> "E1",
     degree |-> "MCA", branch |-> "CSE", sem |-> "I", scheme |-> "2024",
     marks_10th |-> "85", marks_12th |-> " 85.50 ", photo |-> ph, sign |-> "SIG"]

Photos == {"PNG1", "PNG2"}

\* forms that pass every check
GoodForms == { GoodForm("alice", ph) : ph \in Photos }

\* forms that fail one check each, in the order of the checks
BadForms ==
    { [GoodForm("alice", "PNG1") EXCEPT !.sign = None],
      [GoodForm("alice", "PNG1") EXCEPT !.state = "Select"],
      [GoodForm("alice", "PNG1") EXCEPT !.city = "Jaipur 2"],
      [GoodForm("alice", "PNG1") EXCEPT !.phone = "98765"],
      [GoodForm("alice", "PNG1") EXCEPT !.pwd = "abcd1234"],
      [GoodForm("alice", "PNG1") EXCEPT !.marks_10th = "85.555"] }

\* forms that pass every check with a username that is a path, and with
\* whitespace and digits beyond the ASCII ones
OddForms ==
    { [GoodForm("./alice", "PNG2") EXCEPT !.name = "Mallory"],
      [GoodForm("a/b", "PNG1") EXCEPT !.name = "Mallory"],
      [GoodForm("dave", "PNG1") EXCEPT !.city = "\fJaipur", !.marks_10th = "85\f",
                                       !.phone = "²²²²²²²²²²"] }

\* the forms submitted where the store's operations are explored
RegForms == GoodForms \cup { [GoodForm("alice", "PNG1") EXCEPT !.pwd = "abcd1234"] }

\* lines 212-218: not all([...])
missing_fields(f) ==
    ~ /\ f.uname /= "" /\ f.pwd /= "" /\ f.name /= "" /\ f.father /= ""
      /\ f.mother /= "" /\ f.gender /= "" /\ f.address /= "" /\ f.city /= ""
      /\ f.state /= "" /\ f.state /= "Select"
      /\ f.phone /= "" /\ f.rrn /= "" /\ f.enroll /= ""
      /\ f.degree /= "" /\ f.degree /= "Select"
      /\ f.branch /= "" /\ f.branch /= "Select"
      /\ f.sem /= "" /\ f.sem /= "Select"
      /\ f.scheme /= "" /\ f.scheme /= "Select"
      /\ f.marks_10th /= "" /\ f.marks_12th /= ""
      /\ f.photo /= None /\ f.sign /= None

\* lines 219-228: the message of the first check that fails, "" when none does
RegError(f) ==
    IF missing_fields(f) THEN "All fields are required. Check highlighted fields."
    ELSE IF ~ /\ is_valid_name(f.name) /\ is_valid_name(f.father)
              /\ is_valid_name(f.mother) /\ is_valid_name(f.city)
         THEN "Names and city must contain only letters and spaces."
    ELSE IF ~is_valid_number(f.phone, 10) THEN "Phone must be exactly 10 digits."
    ELSE IF ~is_strong_password(f.pwd)
         THEN "Password must be strong (A-Z, a-z, 0-9, symbol, min 8 chars)."
    ELSE IF ~is_valid_marks(f.marks_10th) \/ ~is_valid_marks(f.marks_12th)
         THEN "Marks must be numeric (decimals allowed), e.g. 85 or 85.50"
    ELSE ""

\* lines 235-240: the values bound to the INSERT, with what the two
\* save_file calls returned
RegValues(f, photo_path, sign_path) ==
    <<f.uname, f.pwd, f.name, f.father, f.mother, f.gender, f.address, f.city,
      f.state, f.phone, f.rrn, f.enroll, f.degree, f.branch, f.sem, f.scheme,
      f.marks_10th, f.marks_12th, photo_path, sign_path>>

\* lines 230-231: both save_file calls, the second one when the first
\* returned: [raised, files, photo_path, sign_path]
RegUploads(files, f) ==
    LET photo == save_file(files, f.photo, f.uname \o "_photo.png")
        sign == save_file(photo.files, f.sign, f.uname \o "_sign.png")
    IN  IF photo.raised /= ""
        THEN [raised |-> photo.raised, files |-> photo.files,
              photo_path |-> None, sign_path |-> None]
        ELSE [raised |-> sign.raised, files |-> sign.files,
              photo_path |-> photo.path, sign_path |-> sign.path]

\* Submit of the registration form (lines 210-248), on the login page with
\* the radio on "Register".  An exception of save_file ends the script run
\* before the INSERT.
Register(f) ==
    /\ started
    /\ ~ShowsDashboard
    /\ tab = "Register"
    /\ LET d == ScriptTop(db)
           saved == RegUploads(uploads, f)
           values == RegValues(f, saved.photo_path, saved.sign_path)
       IN  IF RegError(f) /= ""
           THEN /\ notice' = RegError(f)
                /\ db' = d
                /\ UNCHANGED uploads
           ELSE /\ uploads' = saved.files
                /\ IF saved.raised /= ""
                   THEN /\ db' = d
                        /\ notice' = saved.raised
                   ELSE IF InsertOk(d, values)
                   THEN /\ Len(d.rows) < MaxRows
                        /\ db' = InsertRow(d, values)
                        /\ notice' = "Registered successfully. Please log in."
                   ELSE /\ db' = d
                        /\ notice' = "Username already exists. Choose a different username."
    /\ request' = [op |-> "register", args |-> <<f>>]
    /\ result' = << >>
    /\ UNCHANGED <<started, logged_in, user_data, login_failed_count, captcha,
                   uploaded_csv, download, served, tab, option>>

----------------------------------------------------------------------------
(* login_register(): the login form *)

\* SELECT * FROM students WHERE uname=? AND pwd=?, then fetchone(): the first
\* matching row in rowid order, NoUser when none matches
Matching(d, uname, pwd) ==
    { i \in 1..Len(d.rows) :
        /\ Field(d.cols, d.rows[i], "uname") /= None
        /\ Field(d.cols, d.rows[i], "pwd") /= None
        /\ Field(d.cols, d.rows[i], "uname") = uname
        /\ Field(d.cols, d.rows[i], "pwd") = pwd }

FetchUser(d, uname, pwd) ==
    IF Matching(d, uname, pwd) = {} THEN NoUser
    ELSE d.rows[CHOOSE i \in Matching(d, uname, pwd) :
                    \A j \in Matching(d, uname, pwd) : i <= j]

\* an answer check that compares the typed text with the sum's decimal text
captcha_ok_text(user_ans, ans) == user_ans = IntToStr(ans)

\* lines 264-267
captcha_ok(user_ans, ans) ==
    /\ PyInt(user_ans).ok
    /\ ~PyInt(user_ans).big
    /\ PyInt(user_ans).val = ans

\* the username, password and answer triples typed when the challenge sums to ans
LoginInputs(ans) ==
    { <<"admin", "Admin@123", IntToStr(ans)>>,
      <<"admin", "Admin@123", "\f+0" \o IntToStr(ans) \o " ">>,
      <<"admin", "Admin@123", "99999999999">>,
      <<"admin", "Admin@123", IntToStr(ans + 1)>>,
      <<"admin", "Admin@123", "">>,
      <<"admin", "admin@123", IntToStr(ans)>>,
      <<"alice", "Abcd123@", IntToStr(ans)>>,
      <<"alice", "Admin@123", IntToStr(ans)>> }

\* the triples typed where the store's operations are explored: one for each
\* branch of the handler
FewLoginInputs(ans) ==
    { <<"admin", "Admin@123", IntToStr(ans)>>,
      <<"admin", "Admin@123", "">>,
      <<"admin", "admin@123", IntToStr(ans)>> }

\* Submit of the login form (lines 262-299), on the login page with the radio
\* on "Login".  Each branch ends by storing a new challenge drawn with two
\* calls of random.randint(2, 12); randint is the set of values the calls of
\* this run can return.  The rerun of line 291 draws the dashboard, its
\* sidebar radio on the first option.
LoginAttempt(uname, pwd, user_ans, randint) ==
    /\ started
    /\ ~ShowsDashboard
    /\ tab = "Login"
    /\ login_failed_count < MaxFailed
    /\ db' = ScriptTop(db)
    /\ request' = [op |-> "login", args |-> <<uname, pwd, user_ans>>]
    /\ result' = << >>
    /\ UNCHANGED <<uploads, started, uploaded_csv, download, served>>
    /\ LET ans == captcha.tuple[3]
           user == FetchUser(ScriptTop(db), uname, pwd)
       IN  IF ~captcha_ok(user_ans, ans)
           THEN /\ login_failed_count' = FailedCount(login_failed_count)
                /\ notice' = "Captcha incorrect. Please try again."
                /\ UNCHANGED <<logged_in, user_data, tab, option>>
                /\ \E a \in randint, b \in randint :
                      captcha' = RegenerateCaptcha(captcha, a, b)
           ELSE IF user /= NoUser
           THEN /\ logged_in' = TRUE
                /\ user_data' = user
                /\ login_failed_count' = 0
                /\ notice' = "Welcome " \o PyStr(user[3]) \o "!"
                /\ tab' = ""
                /\ option' = base_options[1]
                /\ \E a \in randint, b \in randint :
                      captcha' = RegenerateCaptcha(captcha, a, b)
           ELSE /\ login_failed_count' = FailedCount(login_failed_count)
                /\ notice' = "Invalid credentials."
                /\ UNCHANGED <<logged_in, user_data, tab, option>>
                /\ \E a \in randint, b \in randint :
                      captcha' = RegenerateCaptcha(captcha, a, b)

----------------------------------------------------------------------------
(* dashboard() *)

\* one of the base options chosen in the sidebar (lines 312, 320-533): the run
\* draws that page from the record the session holds, and writes nothing.  The
\* widgets of the Admin Dashboard are not drawn: the uploader's file and the
\* download button are gone.
GoTo(o) ==
    /\ started
    /\ ShowsDashboard
    /\ o \in Range(base_options)
    /\ o /= option
    /\ option' = o
    /\ db' = ScriptTop(db)
    /\ request' = [op |-> "goto", args |-> <<o>>]
    /\ notice' = ""
    /\ result' = << >>
    /\ uploaded_csv' = None
    /\ download' = NoDownload
    /\ served' = << >>
    /\ UNCHANGED <<uploads, started, logged_in, user_data, login_failed_count, captcha, tab>>

\* a logout that stores a new challenge
LogoutRegenerating ==
    /\ started
    /\ ShowsDashboard
    /\ logged_in' = FALSE
    /\ user_data' = NoUser
    /\ notice' = "You are logged out."
    /\ db' = ScriptTop(db)
    /\ request' = [op |-> "logout", args |-> << >>]
    /\ result' = << >>
    /\ uploaded_csv' = None
    /\ download' = NoDownload
    /\ served' = << >>
    /\ tab' = "Login"
    /\ option' = ""
    /\ UNCHANGED <<uploads, started, login_failed_count>>
    /\ \E a \in EdgeOperands, b \in EdgeOperands :
          captcha' = RegenerateCaptcha(captcha, a, b)

\* option == "Logout" (lines 314-318), then the rerun draws the login page,
\* its radio on the first option: the widgets of the dashboard are gone, the
\* uploader's file with them
Logout ==
    /\ started
    /\ ShowsDashboard
    /\ logged_in' = FALSE
    /\ user_data' = NoUser
    /\ notice' = "You are logged out."
    /\ db' = ScriptTop(db)
    /\ request' = [op |-> "logout", args |-> << >>]
    /\ result' = << >>
    /\ uploaded_csv' = None
    /\ download' = NoDownload
    /\ served' = << >>
    /\ tab' = "Login"
    /\ option' = ""
    /\ UNCHANGED <<uploads, started, login_failed_count, captcha>>

\* a DELETE that also takes the rows without a username
DeleteWhereOrNull(d, u) ==
    [d EXCEPT !.rows = SelectSeq(@, LAMBDA r : /\ Field(d.cols, r, "uname") /= None
                                               /\ Field(d.cols, r, "uname") /= u)]

\* DELETE FROM students WHERE uname=?
DeleteWhere(d, u) ==
    [d EXCEPT !.rows = SelectSeq(@, LAMBDA r : ~(u /= None /\ Field(d.cols, r, "uname") /= None
                                                 /\ Field(d.cols, r, "uname") = u))]

\* an UPDATE without the admin's row in its WHERE clause only
UpdatePwdAll(d, p, u) ==
    [d EXCEPT !.rows =
        [i \in 1..Len(@) |->
            IF i \in RowsNamed(d, "admin") THEN @[i]
            ELSE [@[i] EXCEPT ![ColIndex(d.cols, "pwd")] = p]]]

\* UPDATE students SET pwd=? WHERE uname=?
UpdatePwd(d, p, u) ==
    [d EXCEPT !.rows =
        [i \in 1..Len(@) |->
            IF i \in RowsNamed(d, u)
            THEN [@[i] EXCEPT ![ColIndex(d.cols, "pwd")] = p]
            ELSE @[i]]]

----------------------------------------------------------------------------
(* bytes and str.  A bytes value is held as the str whose characters have   *)
(* the bytes' values as their code points.                                  *)

\* the bytes 0x80 to 0xFF in their order
TwoByteSeq == [i \in 1..Len(TwoByteChars) |-> Ch(TwoByteChars, i)]
\* the value of a byte above 0x7F, which is also the code point of the
\* character, and the byte of a value
ByteVal(c) == 127 + CHOOSE i \in 1..Len(TwoByteSeq) : TwoByteSeq[i] = c
ByteOf(v) == TwoByteSeq[v - 127]

\* str.encode('utf-8'): a character from U+0080 on becomes two bytes, a str
\* without such a character is its own bytes
EncodeChar(c) ==
    IF c \in TwoByteSet
    THEN ByteOf(194 + ((ByteVal(c) - 128) \div 64)) \o ByteOf(128 + (ByteVal(c) % 64))
    ELSE c
RECURSIVE encode_utf8(_)
encode_utf8(s) ==
    IF \A i \in 1..Len(s) : Ch(s, i) \notin TwoByteSet THEN s
    ELSE IF Len(s) = 1 THEN EncodeChar(s)
    ELSE encode_utf8(SubSeq(s, 1, Len(s) \div 2))
         \o encode_utf8(SubSeq(s, (Len(s) \div 2) + 1, Len(s)))

\* the UTF-8 decoder before the first byte: the text decoded so far, the
\* number of continuation bytes the character begun still needs, the values
\* the next of them may have, the byte that began the character, whether a
\* character beyond U+00FF was decoded, which the text does not hold, and
\* whether UnicodeDecodeError was raised
NewDecoder ==
    [text |-> "", need |-> 0, lo |-> 0, hi |-> 0, lead |-> 0, wide |-> FALSE,
     raised |-> FALSE]

\* the decoder after one more byte; the two bytes lead and v, for lead 0xC2
\* or 0xC3, are the character of value (lead - 0xC2) * 64 + v
DecodeByte(st, c) ==
    LET v == IF c \in TwoByteSet THEN ByteVal(c) ELSE 0
    IN  IF st.raised THEN st
        ELSE IF st.need = 0
        THEN IF v = 0 THEN [st EXCEPT !.text = @ \o c]
             ELSE IF v \in 194..223
             THEN [st EXCEPT !.need = 1, !.lo = 128, !.hi = 191, !.lead = v]
             ELSE IF v \in 224..239
             THEN [st EXCEPT !.need = 2, !.lo = IF v = 224 THEN 160 ELSE 128,
                             !.hi = IF v = 237 THEN 159 ELSE 191, !.lead = v]
             ELSE IF v \in 240..244
             THEN [st EXCEPT !.need = 3, !.lo = IF v = 240 THEN 144 ELSE 128,
                             !.hi = IF v = 244 THEN 143 ELSE 191, !.lead = v]
             ELSE [st EXCEPT !.raised = TRUE]
        ELSE IF v \notin st.lo..st.hi THEN [st EXCEPT !.raised = TRUE]
        ELSE IF st.need > 1 THEN [st EXCEPT !.need = @ - 1, !.lo = 128, !.hi = 191]
        ELSE IF st.lead \in {194, 195}
        THEN [st EXCEPT !.need = 0, !.text = @ \o ByteOf(((st.lead - 194) * 64) + v)]
        ELSE [st EXCEPT !.need = 0, !.wide = TRUE]

\* the decoder after the bytes lo..hi of b; it stops at the byte that
\* raises: DecodeRest goes on from the decoder the first half has left
RECURSIVE DecodeBytes(_, _, _, _), DecodeRest(_, _, _, _)
DecodeBytes(st, b, lo, hi) ==
    IF lo > hi THEN st
    ELSE IF lo = hi THEN DecodeByte(st, Ch(b, lo))
    ELSE DecodeRest(DecodeBytes(st, b, lo, (lo + hi) \div 2), b, ((lo + hi) \div 2) + 1, hi)
DecodeRest(head, b, lo, hi) ==
    IF head.raised THEN head ELSE DecodeBytes(head, b, lo, hi)

\* what the decoder gives at the end of the bytes: [raised, text]; a character
\* cut short by the end raises as well.  The text is a str of the model when
\* no character of it is beyond U+00FF.
DecodeEnd(st) ==
    IF st.raised \/ st.need > 0 THEN [raised |-> TRUE, text |-> ""]
    ELSE [raised |-> FALSE, text |-> CHOOSE t \in {st.text} : ~st.wide]

\* bytes.decode('utf-8')
decode_utf8(b) == DecodeEnd(DecodeBytes(NewDecoder, b, 1, Len(b)))

----------------------------------------------------------------------------
(* csv.writer and csv.reader, dialect excel                                 *)

\* a field with each quote character doubled
RECURSIVE DoubleQuotes(_)
DoubleQuotes(s) ==
    IF Len(s) = 0 THEN ""
    ELSE IF Len(s) = 1 THEN (IF s = "\"" THEN "\"\"" ELSE s)
    ELSE DoubleQuotes(SubSeq(s, 1, Len(s) \div 2))
         \o DoubleQuotes(SubSeq(s, (Len(s) \div 2) + 1, Len(s)))

\* a value as csv.writer writes it: None as the empty field, a str that holds
\* the delimiter, the quote character, "\r" or "\n" between quote characters
WriteField(v) ==
    IF v = None THEN ""
    ELSE IF \E i \in 1..Len(v) : Ch(v, i) \in {",", "\"", "\r", "\n"}
    THEN "\"" \o DoubleQuotes(v) \o "\""
    ELSE v

RECURSIVE JoinFields(_)
JoinFields(row) ==
    IF Len(row) = 0 THEN ""
    ELSE IF Len(row) = 1 THEN WriteField(row[1])
    ELSE WriteField(row[1]) \o "," \o JoinFields(Tail(row))

\* writer.writerow(row): a row of one empty field is written as two quote
\* characters
writerow(row) ==
    IF Len(row) = 1 /\ WriteField(row[1]) = "" THEN "\"\"\r\n"
    ELSE JoinFields(row) \o "\r\n"

RECURSIVE WriteRows(_)
WriteRows(rows) ==
    IF Len(rows) = 0 THEN "" ELSE writerow(rows[1]) \o WriteRows(Tail(rows))

\* the end of a line, which the reader handles as one more character
EOL == ""

\* the reader before the first character: the state of its parser, the field
\* and the fields of the record begun, the records yielded, and whether
\* csv.Error was raised, which happens when the record after them is asked for
NewReader ==
    [state |-> "START_RECORD", field |-> "", fields |-> << >>, records |-> << >>,
     raised |-> FALSE]

parse_save_field(r) == [r EXCEPT !.fields = Append(@, r.field), !.field = ""]
parse_add_char(r, c) == [r EXCEPT !.field = @ \o c]

\* the state after a field's end: a line's end returns the record, "\r" and
\* "\n" wait for it
AfterField(c) == IF c = EOL THEN "START_RECORD" ELSE "EAT_CRNL"

\* parse_process_char of the reader, for a character or the end of a line
parse_process_char(r, c) ==
    LET newline == c \in {"\n", "\r", EOL}
        start_field ==
            IF newline THEN [parse_save_field(r) EXCEPT !.state = AfterField(c)]
            ELSE IF c = "\"" THEN [r EXCEPT !.state = "IN_QUOTED_FIELD"]
            ELSE IF c = "," THEN [parse_save_field(r) EXCEPT !.state = "START_FIELD"]
            ELSE [parse_add_char(r, c) EXCEPT !.state = "IN_FIELD"]
    IN  CASE r.state = "START_RECORD" ->
                IF c = EOL THEN r
                ELSE IF newline THEN [r EXCEPT !.state = "EAT_CRNL"]
                ELSE start_field
          [] r.state = "START_FIELD" -> start_field
          [] r.state = "IN_FIELD" ->
                IF newline THEN [parse_save_field(r) EXCEPT !.state = AfterField(c)]
                ELSE IF c = "," THEN [parse_save_field(r) EXCEPT !.state = "START_FIELD"]
                ELSE parse_add_char(r, c)
          [] r.state = "IN_QUOTED_FIELD" ->
                IF c = EOL THEN r
                ELSE IF c = "\"" THEN [r EXCEPT !.state = "QUOTE_IN_QUOTED_FIELD"]
                ELSE parse_add_char(r, c)
          [] r.state = "QUOTE_IN_QUOTED_FIELD" ->
                IF c = "\"" THEN [parse_add_char(r, c) EXCEPT !.state = "IN_QUOTED_FIELD"]
                ELSE IF c = "," THEN [parse_save_field(r) EXCEPT !.state = "START_FIELD"]
                ELSE IF newline THEN [parse_save_field(r) EXCEPT !.state = AfterField(c)]
                ELSE [parse_add_char(r, c) EXCEPT !.state = "IN_FIELD"]
          [] r.state = "EAT_CRNL" ->
                IF c \in {"\n", "\r"} THEN r
                ELSE IF c = EOL THEN [r EXCEPT !.state = "START_RECORD"]
                ELSE [r EXCEPT !.raised = TRUE]

\* the reader p that has processed the end of a line yields the record,
\* unless a quoted field goes on
YieldRecord(p) ==
    IF p.raised \/ p.state /= "START_RECORD" THEN p
    ELSE [p EXCEPT !.records = Append(@, p.fields), !.fields = << >>]

\* the end of a line of io.StringIO, which ends its lines at "\n"
EndLine(r) == YieldRecord(parse_process_char(r, EOL))

\* the reader after one more character of the text
ReadChar(r, c) ==
    IF r.raised THEN r
    ELSE IF c = "\n" THEN EndLine(parse_process_char(r, c))
    ELSE parse_process_char(r, c)

\* the reader after the characters lo..hi of the text; it stops at the
\* character that raises: ReadRest goes on from the reader the first half has
\* left
RECURSIVE ReadChars(_, _, _, _), ReadRest(_, _, _, _)
ReadChars(r, text, lo, hi) ==
    IF lo > hi THEN r
    ELSE IF lo = hi THEN ReadChar(r, Ch(text, lo))
    ELSE ReadRest(ReadChars(r, text, lo, (lo + hi) \div 2), text, ((lo + hi) \div 2) + 1, hi)
ReadRest(head, text, lo, hi) ==
    IF head.raised THEN head ELSE ReadChars(head, text, lo, hi)

\* the reader r at the end of a text: the last line need not end with "\n"
LastLine(r, text) ==
    IF r.raised \/ Len(text) = 0 \/ Ch(text, Len(text)) = "\n" THEN r
    ELSE EndLine(r)

\* a quoted field the text ends in is closed, and its record yielded
CloseQuoted(last) ==
    IF ~last.raised /\ last.state = "IN_QUOTED_FIELD"
    THEN [last EXCEPT !.records = Append(@, Append(last.fields, last.field))]
    ELSE last

\* csv.reader(io.StringIO(text)) read to its end: the reader, with the
\* records yielded and whether csv.Error ("new-line character seen in unquoted
\* field") was raised after them.  The last line need not end with "\n", and a
\* quoted field the text ends in is closed.  No field of the model reaches the
\* reader's limit of 131072 characters.
csv_reader(text) ==
    CloseQuoted(LastLine(ReadChars(NewReader, text, 1, Len(text)), text))

----------------------------------------------------------------------------
(* export_all_users_csv()                                                   *)

\* writer.writerow(cols) for the columns of PRAGMA table_info, then
\* writer.writerow(r) for each row of SELECT *, encoded
export_all_users_csv(d) ==
    encode_utf8(writerow(d.cols) \o WriteRows(d.rows))

----------------------------------------------------------------------------
(* import_users_from_csv()                                                  *)

\* what the reader of line 160 gives when it is read: [raised, records]
ReadText(read) ==
    [raised |-> IF read.raised THEN "csv.Error" ELSE "", records |-> read.records]

\* line 160 for what line 159 has decoded
ReadDecoded(decoded) ==
    IF decoded.raised THEN [raised |-> "UnicodeDecodeError", records |-> << >>]
    ELSE ReadText(csv_reader(decoded.text))

\* lines 159-160 and what the reader gives when it is read: [raised, records],
\* raised the exception the reading ends with ("" for none)
ReadBytes(file_bytes) == ReadDecoded(decode_utf8(file_bytes))

\* csv.DictReader.fieldnames: the first record, None for a file without one
HasHeader(records) == Len(records) > 0
FieldNames(records) == records[1]

\* the records DictReader yields as rows: those after the header that are not empty
DataRecords(records) == SelectSeq(Tail(records), LAMBDA rec : rec /= << >>)

\* the header position whose cell the dict DictReader builds holds under
\* key k: the last one named k (0 when none is)
HeaderPos(fieldnames, k) ==
    LET at == { j \in 1..Len(fieldnames) : fieldnames[j] = k }
    IN  IF at = {} THEN 0 ELSE CHOOSE j \in at : \A i \in at : i <= j

\* row.get(k, '') for the schema key at position pos[k] of the header: the
\* cell there, None (restval) when the record ends before it, '' when the
\* header does not name the key
RowGet(pos, rec, k) ==
    IF pos[k] = 0 THEN ""
    ELSE IF pos[k] <= Len(rec) THEN rec[pos[k]]
    ELSE None

\* line 168
RowValues(pos, rec) ==
    [k \in 1..Len(DESIRED_SCHEMA) |-> RowGet(pos, rec, DESIRED_SCHEMA[k])]

\* line 163: "CSV missing required columns. Required columns: " followed by
\* ",".join(sorted(required_cols))
MissingColumnsMessage ==
    "CSV missing required columns. Required columns: address,branch,city,degree,enroll,"
    \o "father,gender,marks_10th,marks_12th,mother,name,phone,photo_path,pwd,rrn,scheme,sem,sign_path,state,uname"

\* str(e) of the sqlite3.IntegrityError a second row with a uname raises
IntegrityMessage == "UNIQUE constraint failed: students.uname"

\* lines 168-174 for the values of the n-th data record
ImportRow(acc, values, n) ==
    IF InsertOk(acc.db, values)
    THEN [acc EXCEPT !.db = InsertRow(@, values), !.imported = @ + 1]
    ELSE [acc EXCEPT !.errors =
             Append(@, "Row " \o IntToStr(n + 1) \o ": " \o IntegrityMessage)]

\* lines 166-174 from the n-th data record on: [db, imported, errors]
RECURSIVE ImportLoop(_, _, _, _)
ImportLoop(acc, pos, recs, n) ==
    IF n > Len(recs) THEN acc
    ELSE ImportLoop(ImportRow(acc, RowValues(pos, recs[n]), n), pos, recs, n + 1)

\* lines 175-176 after the loop: [db, raised, imported, errors]
Committed(loop) ==
    [db |-> loop.db, raised |-> "", imported |-> loop.imported, errors |-> loop.errors]

\* import_users_from_csv(file_bytes) on database d, for what the reading of
\* the file gives: [db, raised, imported, errors].  raised is the exception
\* that escapes: UnicodeDecodeError at line 159; csv.Error or, for a file
\* without a record, TypeError at line 162; csv.Error at the for statement of
\* line 166, which is outside the try, when the reader fails on a row.  An
\* exception leaves line 175 out: the rows inserted before it are not
\* committed, and the database file holds what it held.  In the files of
\* CsvFiles the row the reader fails on is the first one, so that no insert
\* is pending on the connection the exception leaves open.
ImportRead(d, read) ==
    LET none == [db |-> d, raised |-> "", imported |-> 0, errors |-> << >>]
    IN  IF read.raised = "UnicodeDecodeError" THEN [none EXCEPT !.raised = read.raised]
        ELSE IF ~HasHeader(read.records)
        THEN [none EXCEPT !.raised = IF read.raised /= "" THEN read.raised ELSE "TypeError"]
        ELSE IF ~(Range(DESIRED_SCHEMA) \subseteq Range(FieldNames(read.records)))
        THEN [none EXCEPT !.errors = <<MissingColumnsMessage>>]
        ELSE IF read.raised /= "" THEN [none EXCEPT !.raised = read.raised]
        ELSE Committed(ImportLoop([db |-> d, imported |-> 0, errors |-> << >>],
                                  [k \in Range(DESIRED_SCHEMA) |->
                                      HeaderPos(FieldNames(read.records), k)],
                                  DataRecords(read.records), 1))

\* the lines of an uploaded file: fields joined by commas, ended by "\n"
RECURSIVE Line(_)
Line(fields) ==
    IF Len(fields) = 0 THEN "\n"
    ELSE IF Len(fields) = 1 THEN fields[1] \o "\n"
    ELSE fields[1] \o "," \o Line(Tail(fields))

\* the fields of a line under the given header for the schema values vals
Cells(header, vals) ==
    [j \in 1..Len(header) |->
        IF ColIndex(DESIRED_SCHEMA, header[j]) = 0 THEN "x"
        ELSE vals[ColIndex(DESIRED_SCHEMA, header[j])]]

\* the schema values of an imported student, the address between quote
\* characters for its comma
Student(u, p) ==
    <<u, p, "Student " \o u, "Roe", "Doe", "Other", "\"1, Main St\"", "Jaipur", "Rajasthan",
      "9876543210", "0141", "E1", "MCA", "CSE", "I", "2024", "85", "85.50", "", "">>

\* the schema's columns in another order, with a column the schema does not have
HeaderB ==
    <<"note">> \o [i \in 1..Len(DESIRED_SCHEMA) |-> DESIRED_SCHEMA[Len(DESIRED_SCHEMA) + 1 - i]]

\* a file of zero bytes
FileEmpty == ""
\* a header without sign_path, and one line
FileNoSign ==
    Line(SubSeq(DESIRED_SCHEMA, 1, 19)) \o Line(SubSeq(Student("alice", "Ali@1234"), 1, 19))
\* under HeaderB: alice, a blank line, alice again with a field more than the
\* header, and a line that ends before the uname field
FileMain ==
    Line(HeaderB)
    \o Line(Cells(HeaderB, Student("alice", "Ali@1234")))
    \o "\n"
    \o Line(Append(Cells(HeaderB, Student("alice", "Ali@9999")), "extra"))
    \o Line(SubSeq(Cells(HeaderB, Student("carol", "Car@1234")), 1, 20))
\* under the schema's header: a line with a carriage return inside a field,
\* then erin and fred
FileBareCr ==
    Line(DESIRED_SCHEMA)
    \o Line([Student("gina", "Gin@1234") EXCEPT ![4] = "Roe\rJr"])
    \o Line(Student("erin", "Eri@1234"))
    \o Line(Student("fred", "Fre@1234"))
\* under the schema's header: a name with the byte 0xE9, the e acute of Latin-1
FileLatin1 ==
    Line(DESIRED_SCHEMA) \o Line([Student("jose", "Jos@1234") EXCEPT ![3] = "Jos" \o ByteOf(233)])

CsvFiles == {FileEmpty, FileNoSign, FileMain, FileBareCr, FileLatin1}

\* what the reading of each of these files gives
CsvReadings == [file \in CsvFiles |-> ReadBytes(file)]

\* lines 159-160 and what the reader gives when it is read, for any file
ReadCsv(file_bytes) ==
    IF file_bytes \in CsvFiles THEN CsvReadings[file_bytes] ELSE ReadBytes(file_bytes)

\* import_users_from_csv(file_bytes) on database d
import_users_from_csv(d, file_bytes) == ImportRead(d, ReadCsv(file_bytes))

----------------------------------------------------------------------------
(* dashboard(): the Admin Dashboard.  A script run that draws it executes   *)
(* every tab (lines 539-607): the import of the file the uploader holds, the *)
(* export for the download button, and the handler of the button clicked.   *)

\* lines 563-573 for what import_users_from_csv has returned or raised
AfterImport(r) ==
    IF r.raised /= ""
    THEN [db |-> r.db, raised |-> r.raised,
          result |-> <<r.raised, r.imported, r.errors>>, notice |-> r.raised,
          download |-> NoDownload]
    ELSE [db |-> r.db, raised |-> "",
          result |-> <<r.raised, r.imported, r.errors>>,
          notice |-> IF r.errors /= << >>
                     THEN "Some rows failed to import. See details below."
                     ELSE "Imported: " \o IntToStr(r.imported),
          download |-> export_all_users_csv(r.db)]

\* tabs "Bulk Import" and "Export All" (lines 557-573) of a run on database d
\* with uploaded_csv the value of st.file_uploader, a file positioned at its
\* start in every run: [db, raised, result, notice, download].  An exception
\* of import_users_from_csv ends the run before the export.
AdminTabs(d, csv) ==
    IF csv = None
    THEN [db |-> d, raised |-> "", result |-> << >>, notice |-> "",
          download |-> export_all_users_csv(d)]
    ELSE AfterImport(import_users_from_csv(d, csv))

\* the page after the tabs t of a run that has no button's handler to
\* execute; the store stays within MaxRows
ShowTabs(t) ==
    /\ Len(t.db.rows) <= MaxRows
    /\ db' = t.db
    /\ result' = t.result
    /\ notice' = t.notice
    /\ download' = t.download

\* "Admin Dashboard" chosen in the sidebar on another page of the dashboard
\* (lines 311-312, 535): the uploader is drawn empty
OpenAdmin ==
    /\ started
    /\ IsAdminUser
    /\ option /= "Admin Dashboard"
    /\ option' = "Admin Dashboard"
    /\ ShowTabs(AdminTabs(ScriptTop(db), None))
    /\ uploaded_csv' = None
    /\ served' = << >>
    /\ request' = [op |-> "admin", args |-> << >>]
    /\ UNCHANGED <<uploads, started, logged_in, user_data, login_failed_count, captcha, tab>>

\* a file put into the uploader of the Admin Dashboard (lines 560-567)
ImportCsv(file) ==
    /\ started
    /\ IsAdminUser
    /\ option = "Admin Dashboard"
    /\ ShowTabs(AdminTabs(ScriptTop(db), file))
    /\ uploaded_csv' = file
    /\ served' = << >>
    /\ request' = [op |-> "import", args |-> <<file>>]
    /\ UNCHANGED <<uploads, started, logged_in, user_data, login_failed_count, captcha,
                   tab, option>>

\* the file taken out of the uploader
RemoveCsv ==
    /\ started
    /\ IsAdminUser
    /\ option = "Admin Dashboard"
    /\ uploaded_csv /= None
    /\ ShowTabs(AdminTabs(ScriptTop(db), None))
    /\ uploaded_csv' = None
    /\ served' = << >>
    /\ request' = [op |-> "remove", args |-> << >>]
    /\ UNCHANGED <<uploads, started, logged_in, user_data, login_failed_count, captcha,
                   tab, option>>

\* "Download All Users (CSV)" clicked (line 573): the browser gets the bytes
\* the button was drawn with, and the run the click starts draws the page anew
ExportCsv ==
    /\ started
    /\ IsAdminUser
    /\ option = "Admin Dashboard"
    /\ download /= NoDownload
    /\ served' = <<download>>
    /\ ShowTabs(AdminTabs(ScriptTop(db), uploaded_csv))
    /\ request' = [op |-> "export", args |-> << >>]
    /\ UNCHANGED <<uploads, started, logged_in, user_data, login_failed_count, captcha,
                   uploaded_csv, tab, option>>

\* the usernames typed for deletion
DelInputs == {"", "admin", "alice"}
\* the username and new password pairs typed for a reset
RstInputs == { <<"admin", "New@1234">>, <<"admin", "">>, <<"alice", "New@1234">>,
               <<"alice", "">>, <<"", "New@1234">> }

\* a delete handler without the check for the admin's name
DeleteClickedAny(t, del_user) ==
    /\ Len(t.db.rows) <= MaxRows
    /\ result' = t.result
    /\ download' = t.download
    /\ IF t.raised /= ""
       THEN /\ notice' = t.notice
            /\ db' = t.db
       ELSE IF del_user /= ""
       THEN /\ db' = [t.db EXCEPT !.rows = SelectSeq(@, LAMBDA r :
                                     Field(t.db.cols, r, "uname") /= del_user)]
            /\ notice' = "Deleted user: " \o del_user
       ELSE /\ notice' = "Enter a username to delete."
            /\ db' = t.db

\* lines 585-594 after the tabs t of the run; an exception of the import has
\* ended the run before them
DeleteClicked(t, del_user) ==
    /\ Len(t.db.rows) <= MaxRows
    /\ result' = t.result
    /\ download' = t.download
    /\ IF t.raised /= ""
       THEN /\ notice' = t.notice
            /\ db' = t.db
       ELSE IF del_user /= ""
       THEN IF del_user = "admin"
            THEN /\ notice' = "Cannot delete the admin user."
                 /\ db' = t.db
            ELSE /\ db' = DeleteWhere(t.db, del_user)
                 /\ notice' = "Deleted user: " \o del_user
       ELSE /\ notice' = "Enter a username to delete."
            /\ db' = t.db

\* Admin Actions, button "Delete User" (lines 584-594), after the tabs before it
DeleteUser(del_user) ==
    /\ started
    /\ IsAdminUser
    /\ option = "Admin Dashboard"
    /\ download /= NoDownload
    /\ DeleteClicked(AdminTabs(ScriptTop(db), uploaded_csv), del_user)
    /\ served' = << >>
    /\ request' = [op |-> "delete", args |-> <<del_user>>]
    /\ UNCHANGED <<uploads, started, logged_in, user_data, login_failed_count, captcha,
                   uploaded_csv, tab, option>>

\* lines 598-607 after the tabs t of the run; an exception of the import has
\* ended the run before them
ResetClicked(t, rst_user, new_pwd) ==
    /\ Len(t.db.rows) <= MaxRows
    /\ result' = t.result
    /\ download' = t.download
    /\ IF t.raised /= ""
       THEN /\ notice' = t.notice
            /\ db' = t.db
       ELSE IF rst_user /= "" /\ new_pwd /= ""
       THEN IF rst_user = "admin"
            THEN /\ notice' = "Reset admin password directly in DB or change after login."
                 /\ db' = t.db
            ELSE /\ db' = UpdatePwd(t.db, new_pwd, rst_user)
                 /\ notice' = "Password reset for " \o rst_user
       ELSE /\ notice' = "Provide username and new password."
            /\ db' = t.db

\* Admin Actions, button "Reset Password" (lines 596-607), after the tabs
\* before it
ResetPassword(rst_user, new_pwd) ==
    /\ started
    /\ IsAdminUser
    /\ option = "Admin Dashboard"
    /\ download /= NoDownload
    /\ ResetClicked(AdminTabs(ScriptTop(db), uploaded_csv), rst_user, new_pwd)
    /\ served' = << >>
    /\ request' = [op |-> "reset", args |-> <<rst_user, new_pwd>>]
    /\ UNCHANGED <<uploads, started, logged_in, user_data, login_failed_count, captcha,
                   uploaded_csv, tab, option>>

\* the store a button's handler of the Admin Dashboard finds: the one the
\* import of the same run (lines 561-562) has left
StoreAtButton ==
    IF uploaded_csv = None THEN db ELSE import_users_from_csv(db, uploaded_csv).db

----------------------------------------------------------------------------
\* every handler, with the inputs of the store's operations
Next ==
    \/ Startup(EdgeOperands)
    \/ \E t \in {"Login", "Register"} : SelectTab(t)
    \/ \E f \in RegForms : Register(f)
    \/ \E inp \in FewLoginInputs(captcha.tuple[3]) :
          LoginAttempt(inp[1], inp[2], inp[3], EdgeOperands)
    \/ Logout
    \/ \E o \in Range(base_options) : GoTo(o)
    \/ \E del_user \in DelInputs : DeleteUser(del_user)
    \/ \E rst \in RstInputs : ResetPassword(rst[1], rst[2])
    \/ OpenAdmin
    \/ \E file \in CsvFiles : ImportCsv(file)
    \/ RemoveCsv
    \/ ExportCsv

Spec == Init /\ [][Next]_vars

\* the admin's session on a database file of an earlier version
NextSchema ==
    \/ Startup(EdgeOperands)
    \/ \E t \in {"Login", "Register"} : SelectTab(t)
    \/ LoginAttempt("admin", "Admin@123", IntToStr(captcha.tuple[3]), EdgeOperands)
    \/ Logout
    \/ \E o \in Range(base_options) : GoTo(o)
    \/ \E del_user \in DelInputs : DeleteUser(del_user)
    \/ OpenAdmin
    \/ \E file \in CsvFiles : ImportCsv(file)
    \/ RemoveCsv
    \/ ExportCsv

SpecSchema == InitLegacy /\ [][NextSchema]_vars

\* the session's handlers, with the inputs of the login form
NextAuth ==
    \/ Startup(EdgeOperands)
    \/ \E t \in {"Login", "Register"} : SelectTab(t)
    \/ Register(GoodForm("alice", "PNG1"))
    \/ \E inp \in LoginInputs(captcha.tuple[3]) :
          LoginAttempt(inp[1], inp[2], inp[3], EdgeOperands)
    \/ Logout
    \/ \E o \in Range(base_options) : GoTo(o)

SpecAuth == Init /\ [][NextAuth]_vars

\* the triples typed where every value of random.randint(2, 12) is drawn: the
\* answer is right for the challenges that sum to 14, with the admin's
\* password and with another one, and an answer int() does not read
CaptchaInputs ==
    { <<"admin", "Admin@123", "14">>,
      <<"admin", "admin@123", "14">>,
      <<"admin", "Admin@123", "fourteen">> }

\* the login form and the logout, with every value random.randint(2, 12) can
\* return
NextCaptcha ==
    \/ Startup(Operands)
    \/ \E t \in {"Login", "Register"} : SelectTab(t)
    \/ \E inp \in CaptchaInputs : LoginAttempt(inp[1], inp[2], inp[3], Operands)
    \/ Logout
    \/ \E o \in Range(base_options) : GoTo(o)

SpecCaptcha == Init /\ [][NextCaptcha]_vars

\* the registration form, with a form for every check
NextReg ==
    \/ Startup(Operands)
    \/ \E t \in {"Login", "Register"} : SelectTab(t)
    \/ \E f \in GoodForms \cup BadForms \cup OddForms : Register(f)

SpecReg == Init /\ [][NextReg]_vars

----------------------------------------------------------------------------
(* Authentication: the login form, the challenge, the failure counter       *)

\* C1: a login attempt opens the session exactly when the typed answer parses
\* to an integer equal to the sum of the challenge on display and a stored
\* record has exactly the typed username and the typed password; the session
\* then holds that record; with a wrong or unparsable answer the session stays
\* closed and the attempt is reported as a failed captcha, whatever the
\* credentials.
C1_LoginIffAnswerAndRecord ==
    [][request'.op = "login" =>
        LET uname == request'.args[1]
            pwd == request'.args[2]
            parsed == PyInt(request'.args[3])
            right == parsed.ok /\ ~parsed.big /\ parsed.val = captcha.tuple[3]
            matched == { r \in Range(db.rows) :
                           /\ Field(db.cols, r, "uname") = uname
                           /\ Field(db.cols, r, "pwd") = pwd }
        IN  /\ ~ShowsDashboard
            /\ ShowsDashboard' <=> (right /\ matched /= {})
            /\ ShowsDashboard' => user_data' \in matched
            /\ ~right => /\ ~logged_in'
                         /\ user_data' = NoUser
                         /\ notice' = "Captcha incorrect. Please try again."
    ]_vars

\* C1: the admin is logged in by an answer typed with a form feed, a sign, a
\* leading zero and a space
C1_Witness ==
    /\ request.op = "login"
    /\ request.args = <<"admin", "Admin@123", "\f+014 ">>
    /\ ShowsDashboard
    /\ user_data[1] = "admin"

\* C2: every login attempt, whatever its outcome, stores a newly created
\* challenge, and no other step replaces the challenge, so two successive
\* attempts are never judged against the same tuple; every challenge has both
\* operands in 2..12 and their sum as its third component.
C2_NewChallengeEveryAttempt ==
    [][/\ started' =>
            /\ captcha'.tuple[1] \in CaptchaLo..CaptchaHi
            /\ captcha'.tuple[2] \in CaptchaLo..CaptchaHi
            /\ captcha'.tuple[3] = captcha'.tuple[1] + captcha'.tuple[2]
       /\ request'.op = "login" => captcha'.id /= captcha.id /\ captcha'.by = "login"
       /\ (started /\ request'.op /= "login") => captcha' = captcha
    ]_vars

\* C2: an attempt with the right answer and a wrong password, after a failed
\* one, was followed by the challenge 12 + 2
C2_Witness ==
    /\ request.op = "login"
    /\ request.args = <<"admin", "admin@123", "14">>
    /\ notice = "Invalid credentials."
    /\ login_failed_count = 2
    /\ captcha.by = "login"
    /\ captcha.tuple = <<12, 2, 14>>

\* C3: the failure counter grows by exactly one in every failed login attempt
\* of either kind, is zero after a successful one, and no other step
\* (registration, logout, delete, password reset, import) changes it.
C3_FailedCount ==
    [][IF request'.op = "login"
       THEN IF ShowsDashboard'
            THEN login_failed_count' = 0
            ELSE /\ notice' \in {"Captcha incorrect. Please try again.", "Invalid credentials."}
                 /\ login_failed_count' = login_failed_count + 1
       ELSE login_failed_count' = login_failed_count
    ]_vars

\* C3: three failed attempts from the start of the session, the last one
\* with a right answer and a wrong password
C3_Witness ==
    /\ request.op = "login"
    /\ login_failed_count = 3
    /\ notice = "Invalid credentials."

\* C4 as stated: logout closes the session, drops the held record and stores
\* a newly created challenge.
C4_LogoutNewChallenge ==
    [][request'.op = "logout" =>
        /\ ~logged_in'
        /\ user_data' = NoUser
        /\ captcha'.id /= captcha.id
    ]_vars

\* C4: logout closes the session and drops the held record; it leaves the
\* challenge alone, which is the one the successful login attempt stored.
C4_LogoutKeepsChallenge ==
    [][request'.op = "logout" =>
        /\ ShowsDashboard
        /\ ~logged_in'
        /\ user_data' = NoUser
        /\ captcha' = captcha
        /\ captcha.by = "login"
    ]_vars

\* C4: the session after a logout
C4_Witness ==
    /\ request.op = "logout"
    /\ ~logged_in
    /\ user_data = NoUser
    /\ captcha.by = "login"

----------------------------------------------------------------------------
(* The record store and the admin's operations                              *)

\* C5 as stated: no two records of the store have the same username.
C5_NoSharedUsername ==
    \A i \in 1..Len(db.rows), j \in 1..Len(db.rows) :
        i /= j => Field(db.cols, db.rows[i], "uname") /= Field(db.cols, db.rows[j], "uname")

\* C6 as stated: deleting "admin" is refused and changes nothing; deleting a
\* username no record has succeeds and changes nothing; deleting any other
\* username removes exactly the record with that username and leaves all
\* other records as they were.
C6_DeleteAnyOtherSucceeds ==
    [][request'.op = "delete" =>
        LET u == request'.args[1]
            keyed == { i \in 1..Len(StoreAtButton.rows) : Field(StoreAtButton.cols, StoreAtButton.rows[i], "uname") = u }
        IN  IF u = "admin"
            THEN db' = StoreAtButton /\ notice' = "Cannot delete the admin user."
            ELSE /\ notice' = "Deleted user: " \o u
                 /\ IF keyed = {} THEN db' = StoreAtButton
                    ELSE /\ Cardinality(keyed) = 1
                         /\ db' = [StoreAtButton EXCEPT !.rows = SelectSeq(@, LAMBDA r :
                                        Field(StoreAtButton.cols, r, "uname") /= u)]
    ]_vars

\* C6: deleting "admin" or the empty username is refused and changes nothing;
\* deleting a non-empty username no record has succeeds and changes nothing;
\* deleting any other username removes exactly the record with that username
\* and leaves all other records as they were.  The store the delete works on
\* is the one the import of the same script run has left when the uploader
\* holds a file.
C6_Delete ==
    [][request'.op = "delete" =>
        LET u == request'.args[1]
            keyed == { i \in 1..Len(StoreAtButton.rows) : Field(StoreAtButton.cols, StoreAtButton.rows[i], "uname") = u }
        IN  IF u = "admin"
            THEN db' = StoreAtButton /\ notice' = "Cannot delete the admin user."
            ELSE IF u = ""
            THEN db' = StoreAtButton /\ notice' = "Enter a username to delete."
            ELSE /\ notice' = "Deleted user: " \o u
                 /\ IF keyed = {} THEN db' = StoreAtButton
                    ELSE /\ Cardinality(keyed) = 1
                         /\ db' = [StoreAtButton EXCEPT !.rows = SelectSeq(@, LAMBDA r :
                                        Field(StoreAtButton.cols, r, "uname") /= u)]
    ]_vars

\* C6: alice was deleted from a store that holds more than the admin's record
C6_Witness ==
    /\ request.op = "delete"
    /\ request.args = <<"alice">>
    /\ notice = "Deleted user: alice"
    /\ Len(db.rows) >= 2
    /\ \A r \in Range(db.rows) : Field(db.cols, r, "uname") /= "alice"

\* C7 as stated: a reset for "admin" is refused and changes nothing; a reset
\* for a username no record has changes nothing; any other reset changes the
\* password of that username's record and nothing else, after which the
\* username matches with the new password and with no other one.
C7_ResetAnyPassword ==
    [][request'.op = "reset" =>
        LET u == request'.args[1]
            p == request'.args[2]
            keyed == { i \in 1..Len(StoreAtButton.rows) : Field(StoreAtButton.cols, StoreAtButton.rows[i], "uname") = u }
            at == ColIndex(StoreAtButton.cols, "pwd")
        IN  IF u = "admin"
            THEN /\ db' = StoreAtButton
                 /\ notice' = "Reset admin password directly in DB or change after login."
            ELSE IF keyed = {} THEN db' = StoreAtButton
            ELSE /\ Cardinality(keyed) = 1
                 /\ db'.cols = StoreAtButton.cols
                 /\ Len(db'.rows) = Len(StoreAtButton.rows)
                 /\ \A i \in 1..Len(StoreAtButton.rows), j \in 1..Len(StoreAtButton.cols) :
                        db'.rows[i][j] = IF i \in keyed /\ j = at THEN p ELSE StoreAtButton.rows[i][j]
                 /\ \A i \in keyed :
                        /\ FetchUser(db', u, p) = db'.rows[i]
                        /\ StoreAtButton.rows[i][at] /= p => FetchUser(db', u, StoreAtButton.rows[i][at]) = NoUser
    ]_vars

\* C7: a reset for "admin", or with an empty username or an empty new
\* password, is refused and changes nothing; a reset for a username no record
\* has changes nothing; any other reset changes the password of that
\* username's record and nothing else, after which the username matches with
\* the new password and, when that differs, no longer with the old one.  The
\* store the reset works on is the one the import of the same script run has
\* left when the uploader holds a file.
C7_Reset ==
    [][request'.op = "reset" =>
        LET u == request'.args[1]
            p == request'.args[2]
            keyed == { i \in 1..Len(StoreAtButton.rows) : Field(StoreAtButton.cols, StoreAtButton.rows[i], "uname") = u }
            at == ColIndex(StoreAtButton.cols, "pwd")
        IN  IF u = "" \/ p = ""
            THEN db' = StoreAtButton /\ notice' = "Provide username and new password."
            ELSE IF u = "admin"
            THEN /\ db' = StoreAtButton
                 /\ notice' = "Reset admin password directly in DB or change after login."
            ELSE IF keyed = {} THEN db' = StoreAtButton
            ELSE /\ Cardinality(keyed) = 1
                 /\ db'.cols = StoreAtButton.cols
                 /\ Len(db'.rows) = Len(StoreAtButton.rows)
                 /\ \A i \in 1..Len(StoreAtButton.rows), j \in 1..Len(StoreAtButton.cols) :
                        db'.rows[i][j] = IF i \in keyed /\ j = at THEN p ELSE StoreAtButton.rows[i][j]
                 /\ \A i \in keyed :
                        /\ FetchUser(db', u, p) = db'.rows[i]
                        /\ StoreAtButton.rows[i][at] /= p => FetchUser(db', u, StoreAtButton.rows[i][at]) = NoUser
    ]_vars

\* C7: alice's password was reset in a store with a record besides hers and
\* the admin's
C7_Witness ==
    /\ request.op = "reset"
    /\ request.args = <<"alice", "New@1234">>
    /\ FetchUser(db, "alice", "New@1234") /= NoUser
    /\ Len(db.rows) >= 3

\* C8: once the script has run, the store holds exactly one record named
\* "admin", with the values the bootstrap gave it.
C8_AdminAlways ==
    started =>
        LET admins == { i \in 1..Len(db.rows) : Field(db.cols, db.rows[i], "uname") = "admin" }
        IN  /\ Cardinality(admins) = 1
            /\ \A i \in admins, k \in 1..Len(DESIRED_SCHEMA) :
                   Field(db.cols, db.rows[i], DESIRED_SCHEMA[k]) = AdminValues[k]

\* C8: the admin asked for the deletion of "admin"
C8_Witness ==
    /\ request.op = "delete"
    /\ request.args = <<"admin">>
    /\ RowsNamed(db, "admin") /= {}
    /\ Len(db.rows) >= 2

----------------------------------------------------------------------------
(* Bulk import                                                              *)

\* C9 as stated: an import of a file whose header does not name every schema
\* key returns zero imported rows and exactly one error, and leaves the store
\* as it was.
C9_HeaderMismatchReturnsOneError ==
    [][request'.op = "import" =>
        LET read == ReadCsv(request'.args[1])
            header == IF HasHeader(read.records) THEN Range(FieldNames(read.records))
                      ELSE {}
        IN  ~(Range(DESIRED_SCHEMA) \subseteq header) =>
                /\ result'[1] = ""
                /\ result'[2] = 0
                /\ Len(result'[3]) = 1
                /\ db' = db
    ]_vars

\* C10 as stated: an import of a file whose header names every schema key
\* handles each data row on its own: a row that fails, because a record of the
\* store or an earlier row of the file has its username or for any other
\* reason, adds one error "Row <n>: ..." and changes nothing, the rows before
\* and after it are appended to the store; the imported count plus the number
\* of errors is the number of data rows, and the store has grown by the
\* imported count.
C10_RowsImportedIndependently ==
    [][(/\ request'.op = "import"
        /\ HasHeader(ReadCsv(request'.args[1]).records)
        /\ Range(DESIRED_SCHEMA) \subseteq
               Range(FieldNames(ReadCsv(request'.args[1]).records))) =>
        LET read == ReadCsv(request'.args[1])
            recs == DataRecords(read.records)
            pos == [k \in Range(DESIRED_SCHEMA) |-> HeaderPos(FieldNames(read.records), k)]
            uname == [n \in 1..Len(recs) |-> RowGet(pos, recs[n], "uname")]
            stored == { Field(db.cols, r, "uname") : r \in Range(db.rows) }
            fails == [n \in 1..Len(recs) |->
                         /\ uname[n] /= None
                         /\ \/ uname[n] \in stored
                            \/ \E m \in 1..(n - 1) : uname[m] = uname[n]]
            idx == [n \in 1..Len(recs) |-> n]
            good == SelectSeq(idx, LAMBDA n : ~fails[n])
            bad == SelectSeq(idx, LAMBDA n : fails[n])
            imported == result'[2]
            errors == result'[3]
        IN  /\ result'[1] = ""
            /\ read.raised = ""
            /\ imported + Len(errors) = Len(recs)
            /\ Len(errors) = Len(bad)
            /\ \A k \in 1..Len(bad) :
                   LET prefix == "Row " \o IntToStr(bad[k] + 1) \o ": "
                   IN  /\ Len(errors[k]) > Len(prefix)
                       /\ SubSeq(errors[k], 1, Len(prefix)) = prefix
            /\ db'.cols = db.cols
            /\ Len(db'.rows) = Len(db.rows) + imported
            /\ db'.rows = db.rows \o [k \in 1..Len(good) |->
                                        [c \in 1..Len(DESIRED_SCHEMA) |->
                                            RowGet(pos, recs[good[k]], DESIRED_SCHEMA[c])]]
    ]_vars

----------------------------------------------------------------------------
(* Export, the reconciliation of the table, and the files of a registration *)

\* the values a row holds under the schema's keys, in the schema's order
SchemaValues(d, row) ==
    [k \in 1..Len(DESIRED_SCHEMA) |-> Field(d.cols, row, DESIRED_SCHEMA[k])]

\* the number of rows of d that hold the values vals under the schema's keys
Copies(d, vals) ==
    Cardinality({ i \in 1..Len(d.rows) : SchemaValues(d, d.rows[i]) = vals })

\* a store that has the table and no record in it
EmptyStore == ensure_table_and_columns(NoTable)

\* import_users_from_csv(export_all_users_csv()) with the export taken from d
\* and the import done on a store without records
RoundTrip(d) == import_users_from_csv(EmptyStore, export_all_users_csv(d))

\* C11 as stated: the file exported from a store, imported into a store
\* without records, gives an imported count equal to the number of records,
\* no error, and a store that holds the same records field for field in some
\* order, records with absent values in the columns the reconciliation added
\* among them.
C11_ExportImportRoundTrip ==
    started =>
        LET r == RoundTrip(db)
        IN  /\ r.raised = ""
            /\ r.imported = Len(db.rows)
            /\ r.errors = << >>
            /\ Len(r.db.rows) = Len(db.rows)
            /\ \A row \in Range(db.rows) :
                   Copies(r.db, SchemaValues(db, row)) = Copies(db, SchemaValues(db, row))

\* C12 as stated: on any store (no table, a table with some of the schema's
\* columns, a table with columns the schema does not have) the reconciliation
\* of the first script run completes, the table then has every column of the
\* schema, every column it had is still there under its name and in its
\* place, every row holds the values it held, and a second reconciliation
\* changes nothing.
C12_ReconcileAnyStore ==
    [][request'.op = "open" =>
        /\ ~EnsureRaises(db)
        /\ started'
        /\ notice' /= "OperationalError"
        /\ Range(DESIRED_SCHEMA) \subseteq Range(db'.cols)
        /\ db.exists =>
              /\ Len(db'.cols) >= Len(db.cols)
              /\ SubSeq(db'.cols, 1, Len(db.cols)) = db.cols
              /\ Len(db'.rows) >= Len(db.rows)
              /\ \A i \in 1..Len(db.rows) :
                     SubSeq(db'.rows[i], 1, Len(db.cols)) = db.rows[i]
        /\ ~EnsureRaises(db')
        /\ ensure_table_and_columns(db') = db'
    ]_vars

\* C13 as stated: in every store that exists after the reconciliation, one
\* whose table was there before with another column order or with more
\* columns included, the exported file has the schema's keys in the schema's
\* order as its header and then one row for each record, its cells under the
\* header's names.
C13_ExportSchemaHeader ==
    [][(request'.op \in {"admin", "import", "remove", "export", "delete", "reset"}
        /\ download' /= NoDownload) =>
        LET file == ReadCsv(download').records
            d == IF uploaded_csv' = None THEN db
                 ELSE import_users_from_csv(db, uploaded_csv').db
        IN  /\ ReadCsv(download').raised = ""
            /\ file[1] = DESIRED_SCHEMA
            /\ Len(file) = Len(d.rows) + 1
            /\ \A i \in 1..Len(d.rows) :
                   /\ Len(file[i + 1]) = Len(file[1])
                   /\ \A j \in 1..Len(file[1]) :
                          LET v == Field(d.cols, d.rows[i], file[1][j])
                          IN  file[i + 1][j] = IF v = None THEN "" ELSE v
    ]_vars

\* C14 as stated: a registration that is rejected because its username
\* exists changes nothing of the record that has the username: the store is
\* as it was, and the photo and the signature files kept under that
\* username's names hold the bytes they held.
C14_RejectedRegistrationChangesNothing ==
    [][(/\ request'.op = "register"
        /\ notice' = "Username already exists. Choose a different username.") =>
        LET u == request'.args[1].uname
        IN  /\ db' = db
            /\ \A p \in { FileKey(OpenForWrite(uploads, UploadPath(u \o name)).file) :
                             name \in {"_photo.png", "_sign.png"} } :
                   p \in DOMAIN uploads =>
                       /\ p \in DOMAIN uploads'
                       /\ uploads'[p] = uploads[p]
    ]_vars

====
